---- MODULE Spec2Model ----
(***************************************************************************)
(* Offset-guided WAT extraction: Pipeline.run (cc_pipeline/pipeline.py)    *)
(* dispatching WATExtractor.extract_by_offsets (cc_pipeline/               *)
(* wat_extractor.py) over the archive groups of an Athena result.          *)
(***************************************************************************)
EXTENDS Integers, Sequences, FiniteSets, TLC

\* ------------------------------------------------------------------ bounds
MaxStream == 2      \* records in one WAT archive
NumArchives == 2    \* distinct wat_s3_url values in one query result
MaxChunk == 2       \* cfg.chunk_size ranges over 1..MaxChunk

\* ------------------------------------------------------------------ values
None == "None"
Urls == {"u1", "u2"}
HTTP_RESPONSE == "application/http; msgtype=response"
HTTP_REQUEST == "application/http; msgtype=request"
Required == {"url", "warc_filename", "offset", "length", "wat_s3_url"}

\* Python truthiness of an optional string value (None and "" are falsy).
Truthy(v) == v # None /\ v # ""

\* Optional[Set[str]]: None, or a set of target URIs.
NoFilter == [given |-> FALSE, urls |-> {}]
SomeFilter(S) == [given |-> TRUE, urls |-> S]
\* Truthiness of urls_of_interest: None and the empty set are falsy.
FilterTruthy(f) == f.given /\ f.urls # {}

\* One record of a WAT archive as ArchiveIterator yields it.  json_ok says
\* whether the record's content decodes as JSON; the remaining fields are the
\* decoded envelope: Payload-Metadata.Actual-Content-Type, the WARC-Target-URI
\* (record header and Envelope.WARC-Header-Metadata), HTML-Metadata.Head,
\* Payload-Metadata.Entity-Digest and WARC-Header-Metadata.WARC-Payload-Digest.
Rec(t, j, c, u, h, e, p) ==
    [rec_type |-> t, json_ok |-> j, ctype |-> c, uri |-> u,
     head |-> h, entity |-> e, payload |-> p]

WarcInfo == Rec("warcinfo", FALSE, None, None, None, None, None)
BadMeta == Rec("metadata", FALSE, None, "u1", None, None, None)
ReqMeta == Rec("metadata", TRUE, HTTP_REQUEST, "u1", None, None, None)
RespBodies == {<<"head", "sha1:E", None>>, <<None, None, "sha1:P">>,
               <<None, None, None>>}
RespMeta == {Rec("metadata", TRUE, HTTP_RESPONSE, u, b[1], b[2], b[3]) :
                u \in Urls, b \in RespBodies}
RecordKinds == {WarcInfo, BadMeta, ReqMeta} \cup RespMeta

\* json.dumps(head, ensure_ascii=False): the serialized text of the Head block.
JsonDumps(h) == "json:" \o h

\* ------------------------------------------------------------------ parser
\* WATExtractor._parse_wat_record_bytes: None on a decode error or on a
\* content type other than the HTTP-response marker, else the parsed dict.
\* The Optional[Dict] is a record whose is_dict field tells None from a dict.
NoneDict == [is_dict |-> FALSE, Head |-> None, EntityDigest |-> None, EnvelopeUri |-> None]
ParseWatRecordBytes(piece) ==
    IF ~piece.json_ok THEN NoneDict
    ELSE IF piece.ctype # HTTP_RESPONSE THEN NoneDict
    ELSE [is_dict |-> TRUE,
          Head |-> IF Truthy(piece.head) THEN JsonDumps(piece.head) ELSE None,
          EntityDigest |-> IF Truthy(piece.entity) THEN piece.entity ELSE piece.payload,
          EnvelopeUri |-> piece.uri]

\* `if parsed:` at wat_extractor.py:152 (a dict with keys is truthy).
ParsedTruthy(parsed) == parsed.is_dict

\* The bytes a range GET can return.  "none": the GET raised (returns None);
\* "empty": b""; "nobrace": bytes without a '{' ... '}' pair; "text": bytes
\* holding the content of one archive record between the first '{' and the
\* last '}'.
NoData == [kind |-> "none", rec |-> WarcInfo]
EmptyData == [kind |-> "empty", rec |-> WarcInfo]
NoBrace == [kind |-> "nobrace", rec |-> WarcInfo]
TextOf(r) == [kind |-> "text", rec |-> r]
\* No fetched bytes are waiting to be looked at.
Unbound == [kind |-> "unbound", rec |-> WarcInfo]

\* The bytes of the archive record at one offset (an aligned range read): a
\* warcinfo record is plain text without braces, a metadata record is a JSON
\* text (possibly undecodable).
AlignedData(r) == IF r.rec_type = "metadata" THEN TextOf(r) ELSE NoBrace

\* `not data` at wat_extractor.py:135.
DataFalsy(data) == data.kind \in {"none", "empty"}

\* txt.find('{') / txt.rfind('}') and the test at wat_extractor.py:145.
HasJsonSpan(data) == data.kind = "text"

\* One output record (wat_extractor.py:108-113, 163-168).
OutRec(url, head, digest, wat) ==
    [URL |-> url, Head |-> head, EntityDigest |-> digest, WatFile |-> wat]

\* The record the range-read path appends for a parsed piece (163-168).
RangeRecord(parsed, url, wat) ==
    OutRec(IF Truthy(parsed.EnvelopeUri) THEN parsed.EnvelopeUri ELSE url,
           parsed.Head, parsed.EntityDigest, wat)

\* ------------------------------------------------------------------ state
VARIABLES
    cfg,              \* Config: chunk_size, use_range_reads, max_workers
    urls_of_interest, \* the filter Pipeline.run passes to every task
    athena_df,        \* the query result: columns and rows
    s3,               \* object store: wat_s3_url -> the archive's record stream
    scheme,           \* wat_s3_url -> the scheme prefix of the location string
    pc,               \* Pipeline.run: "start", "submit", "collect", "done", "raised"
    groups,           \* wat_s3_url -> offset_rows, once grouped
    futures,          \* the wat_s3_urls submitted to the executor
    handled,          \* the futures as_completed has yielded
    aggregated,       \* the accumulation buffer
    total_extracted,  \* running total of flushed records
    written,          \* the batches handed to the sink, in flush order
    worker_failed,    \* archives logged "Worker for %s failed" (pipeline.py:70)
    wpc,              \* per task: "idle", "queued", "range", "open", "scan", "returned", "raised"
    idx,              \* per task: index of the next offset row of the range loop
    results,          \* per task: `results` of extract_by_offsets (its return value once returned)
    sresults,         \* per task: `results` of _stream_and_extract
    pos,              \* per task: position of ArchiveIterator in the stream
    opens,            \* per task: calls of fs.open so far
    handle,           \* per task: the stream of fs.open: "none", "open", "closed"
    stream_failed,    \* archives logged "Stream-extract failed" (wat_extractor.py:118)
    data,             \* per task: the bytes a range GET handed back, until the loop has used them
    fetched           \* per task: the offsets range GETs were issued for, in order

inputs == <<cfg, urls_of_interest, athena_df, s3, scheme>>
orch == <<pc, groups, futures, handled, aggregated, total_extracted, written, worker_failed>>
work == <<wpc, idx, results, sresults, pos, opens, handle, stream_failed, data, fetched>>
vars == <<inputs, orch, work>>

\* ------------------------------------------------------------------ inputs
SeqsUpTo(S, n) == UNION {[1..k -> S] : k \in 1..n}
WideStreams == SeqsUpTo(RecordKinds, MaxStream)
\* With several archives each stream holds one or two response records, the
\* two of them different.
FullResp == Rec("metadata", TRUE, HTTP_RESPONSE, "u1", "head", "sha1:E", None)
OtherResp == Rec("metadata", TRUE, HTTP_RESPONSE, "u2", None, None, "sha1:P")
NarrowStreams == {<<FullResp>>, <<FullResp, OtherResp>>}
MetaPositions(stream) == {p \in 1..Len(stream) : stream[p].rec_type = "metadata"}
Filters == {NoFilter, SomeFilter({"u1"}), SomeFilter(Urls)}
ColumnSets == {Required} \cup {Required \ {c} : c \in Required}

\* One row of the query result.  The archive location and the WARC file name
\* are numbered; the numbers order as the strings do.
Row(a, w, p, stream) ==
    [url |-> stream[p].uri, warc_filename |-> w, offset |-> p, length |-> 1,
     wat_s3_url |-> a]

\* The WARC file name of the row at offset p of archive a.  Usually every row
\* of one archive location names the same WARC file; with `split` each row
\* names a WARC file of its own, and the later offsets have the names that
\* sort first.
WarcName(a, p, split) == IF split THEN a + (MaxStream - p) ELSE a

RECURSIVE SetToSeqDesc(_)
SetToSeqDesc(S) ==
    IF S = {} THEN <<>>
    ELSE LET m == CHOOSE x \in S : \A y \in S : y <= x
         IN <<m>> \o SetToSeqDesc(S \ {m})

RECURSIVE RowsOf(_, _, _, _)
\* The rows of archives n, n-1, ..., 1, each by descending offset: the query
\* result arrives in no particular order.
RowsOf(n, arch, want, split) ==
    IF n = 0 THEN <<>>
    ELSE [i \in 1..Cardinality(want[n]) |->
              LET p == SetToSeqDesc(want[n])[i]
              IN Row(n, WarcName(n, p, split), p, arch[n])]
         \o RowsOf(n - 1, arch, want, split)

\* The state when Pipeline.run is entered.  A run over one archive takes every
\* stream, filter and choice of entries; a run over several archives takes the
\* short response streams, all their entries and no filter, and when it uses
\* range reads its first location is not an s3:// one.  The split WARC names
\* come with one archive, range reads and no filter.
Init ==
    \E n \in 0..NumArchives :
    \E arch \in [1..n -> IF n = 1 THEN WideStreams ELSE NarrowStreams] :
    \E want \in [1..n -> SUBSET (1..MaxStream)] :
    \E split \in BOOLEAN :
        /\ \A a \in 1..n :
              /\ want[a] # {}
              /\ want[a] \subseteq MetaPositions(arch[a])
              /\ (n # 1 => want[a] = MetaPositions(arch[a]))
        /\ s3 = arch
        /\ scheme \in [1..n -> {"s3://", "https://"}]
        /\ \A a \in 1..n : scheme[a] = "https://" => n # 1 /\ a = 1
        /\ cfg \in [chunk_size : IF n = 1 THEN {MaxChunk} ELSE 1..MaxChunk,
                    use_range_reads : BOOLEAN,
                    max_workers : IF n <= 1 THEN {1} ELSE {1, n}]
        /\ ((n >= 2 /\ cfg.use_range_reads) => scheme[1] = "https://")
        /\ (split => n = 1 /\ cfg.use_range_reads /\ Cardinality(want[1]) >= 2)
        /\ urls_of_interest \in (IF n = 1 /\ ~split THEN Filters ELSE {NoFilter})
        /\ athena_df \in [columns : IF n = 1 THEN {Required} ELSE ColumnSets,
                          rows : {RowsOf(n, arch, want, split)}]
        /\ pc = "start"
        /\ groups = <<>>
        /\ futures = {}
        /\ handled = {}
        /\ aggregated = <<>>
        /\ total_extracted = 0
        /\ written = <<>>
        /\ worker_failed = {}
        /\ wpc = [a \in 1..n |-> "idle"]
        /\ idx = [a \in 1..n |-> 1]
        /\ results = [a \in 1..n |-> <<>>]
        /\ sresults = [a \in 1..n |-> <<>>]
        /\ pos = [a \in 1..n |-> 1]
        /\ opens = [a \in 1..n |-> 0]
        /\ handle = [a \in 1..n |-> "none"]
        /\ stream_failed = {}
        /\ data = [a \in 1..n |-> Unbound]
        /\ fetched = [a \in 1..n |-> <<>>]

Archives == DOMAIN s3

\* ------------------------------------------------------------------ Pipeline.run: validation, sort, group
RowLess(r1, r2) ==
    \/ r1.warc_filename < r2.warc_filename
    \/ r1.warc_filename = r2.warc_filename /\ r1.offset < r2.offset

RECURSIVE InsertRow(_, _)
InsertRow(r, sorted) ==
    IF sorted = <<>> THEN <<r>>
    ELSE IF RowLess(r, Head(sorted)) THEN <<r>> \o sorted
    ELSE <<Head(sorted)>> \o InsertRow(r, Tail(sorted))

RECURSIVE SortValues(_)
\* athena_df.sort_values(["warc_filename", "offset"])
SortValues(rows) ==
    IF rows = <<>> THEN <<>>
    ELSE InsertRow(rows[Len(rows)], SortValues(SubSeq(rows, 1, Len(rows) - 1)))

IsGroup(r, k) == r.wat_s3_url = k

\* athena_df.groupby("wat_s3_url") and, per group, the list of
\* (offset, length, url) tuples in the order of the sorted frame.
GroupBy(rows) ==
    [k \in {rows[i].wat_s3_url : i \in 1..Len(rows)} |->
        LET sub == SelectSeq(rows, LAMBDA r : IsGroup(r, k))
        IN [i \in 1..Len(sub) |->
               [offset |-> sub[i].offset, length |-> sub[i].length, url |-> sub[i].url]]]

\* Faulty variant of ColumnsOk: the required set lacks "offset".
ColumnsOkNoOffset(columns) == (Required \ {"offset"}) \subseteq columns

\* pipeline.py:36: required.issubset(set(athena_df.columns)).
ColumnsOk(columns) == Required \subseteq columns

\* pipeline.py:21-47: fetch the query result, check the required columns
\* (ValueError when one is missing), sort and group.
Validate ==
    /\ pc = "start"
    /\ IF ~ColumnsOk(athena_df.columns)
       THEN pc' = "raised" /\ groups' = groups
       ELSE /\ groups' = GroupBy(SortValues(athena_df.rows))
            /\ pc' = IF DOMAIN groups' = {} THEN "collect" ELSE "submit"
    /\ UNCHANGED <<inputs, futures, handled, aggregated, total_extracted, written,
                   worker_failed, work>>

\* ------------------------------------------------------------------ Pipeline.run: dispatch
Running == {a \in Archives : wpc[a] \in {"range", "open", "scan"}}
Queued == {a \in Archives : wpc[a] = "queued"}
Finished == {a \in Archives : wpc[a] \in {"returned", "raised"}}

\* pipeline.py:54-61: ex.submit for the next group, in the order of the keys.
Submit(a) ==
    /\ pc = "submit"
    /\ a \in DOMAIN groups \ futures
    /\ \A b \in DOMAIN groups \ futures : a <= b
    /\ futures' = futures \cup {a}
    /\ wpc' = [wpc EXCEPT ![a] = "queued"]
    /\ pc' = IF futures' = DOMAIN groups THEN "collect" ELSE "submit"
    /\ UNCHANGED <<inputs, groups, handled, aggregated, total_extracted, written,
                   worker_failed, idx, results, sresults, pos, opens, handle,
                   stream_failed, data, fetched>>

\* Faulty variant of PoolHasIdleThread: one thread of the pool is never used.
PoolOneShort == Cardinality(Running) < cfg.max_workers - 1

\* Faulty variant of PoolHasIdleThread: the pool starts every queued task.
PoolUnbounded == TRUE

\* ThreadPoolExecutor(max_workers=self.cfg.max_workers) (pipeline.py:54): a
\* queued task starts only while fewer than max_workers tasks run.
PoolHasIdleThread == Cardinality(Running) < cfg.max_workers

\* A pool thread takes the oldest queued work item and enters
\* extract_by_offsets (wat_extractor.py:121-132, 178-180).
StartTask(a) ==
    /\ a \in Queued
    /\ \A b \in Queued : a <= b
    /\ PoolHasIdleThread
    /\ IF groups[a] = <<>>
       THEN wpc' = [wpc EXCEPT ![a] = "returned"]
       ELSE IF cfg.use_range_reads
       THEN wpc' = [wpc EXCEPT ![a] = "range"]
       ELSE wpc' = [wpc EXCEPT ![a] = "open"]
    /\ UNCHANGED <<inputs, orch, idx, results, sresults, pos, opens, handle,
                   stream_failed, data, fetched>>

\* ------------------------------------------------------------------ extract_by_offsets: range reads
\* What _s3_range_get can hand back for one offset row: nothing (the GET
\* raised), no bytes, bytes without a JSON span, bytes with a span that does
\* not decode, or the bytes of the archive record at that offset.
Garbled == TextOf(BadMeta)
RangeGetOutcomes(a, row) ==
    {NoData, EmptyData, NoBrace, Garbled, AlignedData(s3[a][row.offset])}

\* Faulty variant of AfterScan: with range reads the loop goes on after the scan.
AfterScanResumes == IF cfg.use_range_reads THEN "range" ELSE "returned"

\* `return results` right after every call of _stream_and_extract
\* (wat_extractor.py:138, 149, 172, 176, 180): the scan ends the task.
AfterScan == "returned"

\* Faulty variant of ExtractReturn: the scan's records are added to the range-read
\* records instead of replacing them.
ExtractReturnKeepsRange(acc, scanned) == acc \o scanned

\* Faulty variant of ExtractReturn: an empty scan leaves the range-read records.
ExtractReturnUnlessEmpty(acc, scanned) == IF Len(scanned) = 0 THEN acc ELSE scanned

\* `results = self._stream_and_extract(...); return results`
\* (wat_extractor.py:137-138, 148-149, 171-172, 175-176, 180): the value
\* extract_by_offsets returns once the sequential scan has returned.
ExtractReturn(acc, scanned) == scanned

\* wat_extractor.py:133-134: the range GET of the next offset row.  The assert
\* of _s3_range_get (line 58) fails outside every try block when the location
\* is not an s3:// one; otherwise the GET hands back its bytes.
RangeGet(a) ==
    /\ wpc[a] = "range"
    /\ data[a] = Unbound
    /\ LET row == groups[a][idx[a]] IN
       IF scheme[a] # "s3://"
       THEN /\ wpc' = [wpc EXCEPT ![a] = "raised"]
            /\ UNCHANGED <<data, fetched>>
       ELSE /\ \E got \in RangeGetOutcomes(a, row) : data' = [data EXCEPT ![a] = got]
            /\ fetched' = [fetched EXCEPT ![a] = Append(@, row.offset)]
            /\ UNCHANGED wpc
    /\ UNCHANGED <<inputs, orch, idx, results, sresults, pos, opens, handle, stream_failed>>

\* wat_extractor.py:135-176: what the loop does with the fetched bytes.
RangeRead(a) ==
    /\ wpc[a] = "range"
    /\ data[a] # Unbound
    /\ LET row == groups[a][idx[a]]
           parsed == ParseWatRecordBytes(data[a].rec)
       IN IF DataFalsy(data[a]) \/ ~HasJsonSpan(data[a]) \/ ~ParsedTruthy(parsed)
          THEN \* fall back: enter _stream_and_extract
               /\ wpc' = [wpc EXCEPT ![a] = "open"]
               /\ sresults' = [sresults EXCEPT ![a] = <<>>]
               /\ UNCHANGED <<idx, results>>
          ELSE /\ results' = [results EXCEPT ![a] =
                                 Append(@, RangeRecord(parsed, row.url, a))]
               /\ idx' = [idx EXCEPT ![a] = @ + 1]
               /\ wpc' = [wpc EXCEPT ![a] =
                             IF idx[a] = Len(groups[a]) THEN "returned" ELSE "range"]
               /\ UNCHANGED sresults
    /\ data' = [data EXCEPT ![a] = Unbound]
    /\ UNCHANGED <<inputs, orch, pos, opens, handle, stream_failed, fetched>>

\* ------------------------------------------------------------------ _stream_and_extract
\* wat_extractor.py:83-85: open the object and the gzip stream.  A failure
\* is caught at 117-118 and the empty list is returned.
StreamOpen(a) ==
    /\ wpc[a] = "open"
    /\ opens' = [opens EXCEPT ![a] = @ + 1]
    /\ \E ok \in BOOLEAN :
          IF ok /\ Len(s3[a]) > 0
          THEN /\ wpc' = [wpc EXCEPT ![a] = "scan"]
               /\ pos' = [pos EXCEPT ![a] = 1]
               /\ handle' = [handle EXCEPT ![a] = "open"]
               /\ UNCHANGED <<results, stream_failed>>
          ELSE /\ wpc' = [wpc EXCEPT ![a] = AfterScan]
               /\ results' = [results EXCEPT ![a] = ExtractReturn(@, sresults[a])]
               /\ stream_failed' = IF ok THEN stream_failed ELSE stream_failed \cup {a}
               /\ handle' = [handle EXCEPT ![a] = IF ok THEN "closed" ELSE "none"]
               /\ UNCHANGED pos
    /\ UNCHANGED <<inputs, orch, idx, sresults, data, fetched>>

\* Faulty variant of ExitWith: leaving the block leaves the stream as it is.
ExitWithLeak(h) == h

\* wat_extractor.py:84-85: leaving the two `with` blocks, by return, break or
\* exception, closes the gzip stream and the object's file handle.
ExitWith(h) == IF h = "open" THEN "closed" ELSE h

\* wat_extractor.py:104-106: head and digest of a decoded response record.
DigestOf(rec) == IF Truthy(rec.entity) THEN rec.entity ELSE rec.payload

\* wat_extractor.py:107-113: the list after the record's conditional append.
ScanAppend(res, rec, a) ==
    IF Truthy(rec.head) \/ Truthy(DigestOf(rec))
    THEN Append(res, OutRec(rec.uri,
                            IF Truthy(rec.head) THEN JsonDumps(rec.head) ELSE None,
                            DigestOf(rec), a))
    ELSE res

\* wat_extractor.py:87-103: whether the record is skipped with `continue`.
ScanSkips(rec, filter) ==
    \/ rec.rec_type # "metadata"
    \/ rec.ctype # HTTP_RESPONSE
    \/ FilterTruthy(filter) /\ rec.uri \notin filter.urls

\* wat_extractor.py:115: the early exit.
EarlyExit(res, offsets, filter) == FilterTruthy(filter) /\ Len(res) >= Len(offsets)

RECURSIVE ScanFrom(_, _, _, _, _, _)
\* wat_extractor.py:86-119 as a function of the stream: the list the scan
\* returns from position p on when no read of the stream fails.
ScanFrom(stream, p, res, offsets, filter, a) ==
    IF p > Len(stream) THEN res
    ELSE LET rec == stream[p] IN
         IF rec.rec_type = "metadata" /\ ~rec.json_ok THEN res
         ELSE IF ScanSkips(rec, filter) THEN ScanFrom(stream, p + 1, res, offsets, filter, a)
         ELSE LET r2 == ScanAppend(res, rec, a) IN
              IF EarlyExit(r2, offsets, filter) THEN r2
              ELSE ScanFrom(stream, p + 1, r2, offsets, filter, a)

\* _stream_and_extract(s3_url, offset_rows, urls_of_interest) on an archive
\* whose stream opens and reads without an I/O error.
StreamAndExtract(a) == ScanFrom(s3[a], 1, <<>>, groups[a], urls_of_interest, a)

\* One iteration of the loop at wat_extractor.py:86-116, with the return at
\* 119 when the iteration is the last one, breaks, or raises (caught at 117).
ScanRecord(a) ==
    /\ wpc[a] = "scan"
    /\ LET rec == s3[a][pos[a]]
           last == pos[a] = Len(s3[a])
           raises == rec.rec_type = "metadata" /\ ~rec.json_ok
           res == IF raises \/ ScanSkips(rec, urls_of_interest) THEN sresults[a]
                  ELSE ScanAppend(sresults[a], rec, a)
           stops == \/ raises
                    \/ ~ScanSkips(rec, urls_of_interest)
                         /\ EarlyExit(res, groups[a], urls_of_interest)
                    \/ last
       IN /\ sresults' = [sresults EXCEPT ![a] = res]
          /\ stream_failed' = IF raises THEN stream_failed \cup {a} ELSE stream_failed
          /\ IF stops
             THEN /\ wpc' = [wpc EXCEPT ![a] = AfterScan]
                  /\ results' = [results EXCEPT ![a] = ExtractReturn(@, res)]
                  /\ handle' = [handle EXCEPT ![a] = ExitWith(@)]
                  /\ UNCHANGED pos
             ELSE /\ pos' = [pos EXCEPT ![a] = @ + 1]
                  /\ UNCHANGED <<wpc, results, handle>>
    /\ UNCHANGED <<inputs, orch, idx, opens, data, fetched>>

\* Reading the next record from the remote gzip stream fails (connection or
\* framing error inside ArchiveIterator): caught at wat_extractor.py:117, the
\* records collected so far are returned at 119.
StreamReadError(a) ==
    /\ wpc[a] = "scan"
    /\ stream_failed' = stream_failed \cup {a}
    /\ wpc' = [wpc EXCEPT ![a] = AfterScan]
    /\ results' = [results EXCEPT ![a] = ExtractReturn(@, sresults[a])]
    /\ handle' = [handle EXCEPT ![a] = ExitWith(@)]
    /\ UNCHANGED <<inputs, orch, idx, sresults, pos, opens, data, fetched>>

\* ------------------------------------------------------------------ Pipeline.run: collect and flush
RECURSIVE Reverse(_)
Reverse(seq) == IF seq = <<>> THEN <<>> ELSE Reverse(Tail(seq)) \o <<Head(seq)>>
\* Faulty variant of Extend: the rows are taken last to first.
ExtendReversed(buf, rows) == IF Len(rows) > 0 THEN buf \o Reverse(rows) ELSE buf

\* Faulty variant of Extend: the rows replace the buffer instead of extending it.
ExtendOverwrites(buf, rows) == IF Len(rows) > 0 THEN rows ELSE buf

\* pipeline.py:66-68: the buffer after a future's rows are taken.
Extend(buf, rows) == IF Len(rows) > 0 THEN buf \o rows ELSE buf

\* Faulty variant of FlushDue: a buffer of exactly chunk_size records stays.
FlushDueAboveChunk(buf) == Len(buf) > cfg.chunk_size

\* Faulty variant of FlushDue: every non-empty buffer is flushed.
FlushDueNonEmpty(buf) == Len(buf) >= 1

\* pipeline.py:73: the flush test of the completion loop.
FlushDue(buf) == Len(buf) >= cfg.chunk_size

\* Faulty variant of CountAfter: the total counts batches, not records.
CountAfterPerBatch(total, buf) == total + 1

\* pipeline.py:75, 86: total_extracted += len(df_chunk).
CountAfter(total, buf) == total + Len(buf)

\* Faulty variant of Batch: the destination is named by the batch's own size.
BatchNamedBySize(buf, total) == [dest |-> Len(buf), batch |-> buf]

\* pipeline.py:74-80, 85-91: one batch handed to the sink; dest is the
\* running total that names the destination file.
Batch(buf, total) == [dest |-> CountAfter(total, buf), batch |-> buf]

\* One iteration of the as_completed loop (pipeline.py:63-81).
HandleCompletion(a) ==
    /\ pc = "collect"
    /\ a \in (futures \ handled) \cap Finished
    /\ handled' = handled \cup {a}
    /\ worker_failed' = IF wpc[a] = "raised" THEN worker_failed \cup {a} ELSE worker_failed
    /\ LET buf == IF wpc[a] = "raised" THEN aggregated ELSE Extend(aggregated, results[a])
       IN IF FlushDue(buf)
          THEN /\ written' = Append(written, Batch(buf, total_extracted))
               /\ total_extracted' = CountAfter(total_extracted, buf)
               /\ aggregated' = <<>>
          ELSE /\ aggregated' = buf
               /\ UNCHANGED <<written, total_extracted>>
    /\ UNCHANGED <<inputs, pc, groups, futures, work>>

\* pipeline.py:83-93: the pool is left once every future was yielded; final
\* flush of a non-empty buffer, then the closing log line.
FinalFlush ==
    /\ pc = "collect"
    /\ handled = futures
    /\ pc' = "done"
    /\ IF Len(aggregated) > 0
       THEN /\ written' = Append(written, Batch(aggregated, total_extracted))
            /\ total_extracted' = CountAfter(total_extracted, aggregated)
       ELSE UNCHANGED <<written, total_extracted>>
    /\ UNCHANGED <<inputs, groups, futures, handled, aggregated, worker_failed, work>>

Next ==
    \/ Validate
    \/ \E a \in Archives : Submit(a)
    \/ \E a \in Archives : StartTask(a)
    \/ \E a \in Archives : RangeGet(a)
    \/ \E a \in Archives : RangeRead(a)
    \/ \E a \in Archives : StreamOpen(a)
    \/ \E a \in Archives : ScanRecord(a)
    \/ \E a \in Archives : StreamReadError(a)
    \/ \E a \in Archives : HandleCompletion(a)
    \/ FinalFlush

Spec == Init /\ [][Next]_vars

\* The steps of task a, and the steps of Pipeline.run.
TaskStep(a) ==
    /\ a \in Archives
    /\ \/ StartTask(a) \/ RangeGet(a) \/ RangeRead(a)
       \/ StreamOpen(a) \/ ScanRecord(a) \/ StreamReadError(a)
RunStep ==
    \/ Validate
    \/ \E a \in Archives : Submit(a)
    \/ \E a \in Archives : HandleCompletion(a)
    \/ FinalFlush
\* The main thread runs on, every pool thread runs on, and every remote call
\* (range GET, open, read of the stream) returns or raises.
Fairness ==
    /\ WF_vars(RunStep)
    /\ \A a \in 1..NumArchives : WF_vars(TaskStep(a))
FairSpec == Init /\ [][Next]_vars /\ Fairness

\* ------------------------------------------------------------------ properties
S3ReadRetries == 2

Returned(a) == wpc[a] = "returned"
\* The task entered the sequential scan although range reads were enabled.
FellBack(a) == cfg.use_range_reads /\ opens[a] > 0
\* fs.open failed: the failure was logged and no stream was ever held.
OpenFailed(a) == a \in stream_failed /\ handle[a] = "none"
TaskFailed(a) == wpc[a] = "raised" \/ a \in stream_failed
\* The rows a finished task hands to the orchestrator.
TaskRows(a) == IF Returned(a) THEN results[a] ELSE <<>>
Range(seq) == {seq[i] : i \in DOMAIN seq}
Count(seq, r) == Cardinality({i \in DOMAIN seq : seq[i] = r})
Ceil(m, k) == (m + k - 1) \div k

RECURSIVE SumRows(_)
SumRows(S) ==
    IF S = {} THEN 0
    ELSE LET a == CHOOSE x \in S : TRUE IN Len(TaskRows(a)) + SumRows(S \ {a})
\* M: the records returned by all archive tasks.
Produced == SumRows(Archives)

RECURSIVE Flat(_)
\* The flushed batches concatenated in flush order.
Flat(w) == IF w = <<>> THEN <<>> ELSE Flat(SubSeq(w, 1, Len(w) - 1)) \o w[Len(w)].batch

\* The record a full scan emits for one stream record that it keeps.
ScanRecordOf(rec, a) == ScanAppend(<<>>, rec, a)[1]
ValidResponse(rec) ==
    /\ rec.rec_type = "metadata" /\ rec.json_ok /\ rec.ctype = HTTP_RESPONSE
    /\ (Truthy(rec.head) \/ Truthy(DigestOf(rec)))
RequestedUrls(a) == {groups[a][i].url : i \in DOMAIN groups[a]}

\* C1: when a range read or its parse fails at some entry, the value
\* extract_by_offsets returns is exactly the list the sequential scan built:
\* every returned record is the scan's record of some record of the archive's
\* stream, and the records accumulated by the earlier range reads are gone.
C1_FallbackResultIsFullScan ==
    \A a \in Archives :
        (Returned(a) /\ FellBack(a)) =>
            /\ results[a] = sresults[a]
            /\ \A i \in DOMAIN results[a] :
                  \E p \in DOMAIN s3[a] :
                      ValidResponse(s3[a][p]) /\ results[a][i] = ScanRecordOf(s3[a][p], a)
\* A task fell back at its second or a later entry, after at least one range
\* read had been accumulated, and returned a non-empty scan result.
C1_Witness ==
    \E a \in Archives :
        Returned(a) /\ FellBack(a) /\ idx[a] >= 2 /\ Len(results[a]) >= 1

\* C2 (as claimed): at the end of the run the number of batches written is
\* exactly ceil(M / K), M the records returned by the tasks, K = chunk_size.
C2_BatchesAreCeil ==
    pc = "done" => Len(written) = Ceil(Produced, cfg.chunk_size)
\* C2 (amended): the number of batches is 0 when M = 0, and otherwise at least 1
\* and at most ceil(M / K); a completion flushes the whole buffer as one batch.
C2_BatchesAtMostCeil ==
    pc = "done" =>
        /\ Produced = 0 => Len(written) = 0
        /\ Produced > 0 => Len(written) >= 1 /\ Len(written) <= Ceil(Produced, cfg.chunk_size)
\* A finished run that wrote two or more batches, fewer than ceil(M / K).
C2_Witness ==
    /\ pc = "done"
    /\ Len(written) >= 2
    /\ Len(written) < Ceil(Produced, cfg.chunk_size)

C4_FailedTaskContributesNothing ==
    pc = "done" =>
        \A a \in Archives :
            IF TaskFailed(a)
            THEN \A r \in Range(Flat(written)) : r.WatFile # a
            ELSE \A r \in Range(results[a]) : Count(Flat(written), r) = Count(results[a], r)

\* C5 (as claimed): at the end of the run an archive whose stream could not
\* be opened is in the run's record of failed archives, and the records of
\* the other archives are all in the output.
C5_OpenFailureIsReported ==
    pc = "done" =>
        \A a \in Archives :
            OpenFailed(a) =>
                /\ a \in worker_failed
                /\ \A b \in Archives \ {a} : \A r \in Range(TaskRows(b)) :
                      Count(Flat(written), r) = Count(TaskRows(b), r)

\* C6 (as claimed): an archive is abandoned for an open failure only after
\* s3_read_retries + 1 open attempts.
C6_OpenIsRetried ==
    \A a \in Archives :
        (Returned(a) /\ OpenFailed(a)) => opens[a] = S3ReadRetries + 1

\* C7 (as claimed): after a fallback whose scan met no error, with no filter
\* or a filter that holds every requested target URI, the result holds the
\* full-scan record of every requested target URI that occurs in the archive
\* as a valid HTTP-response record.
FilterCovers(a) ==
    ~FilterTruthy(urls_of_interest) \/ RequestedUrls(a) \subseteq urls_of_interest.urls
C7_FallbackFindsEveryTarget ==
    \A a \in Archives :
        (Returned(a) /\ FellBack(a) /\ a \notin stream_failed /\ FilterCovers(a)) =>
            \A u \in RequestedUrls(a) :
                (\E p \in DOMAIN s3[a] : ValidResponse(s3[a][p]) /\ s3[a][p].uri = u) =>
                    \E q \in DOMAIN s3[a] :
                        /\ ValidResponse(s3[a][q]) /\ s3[a][q].uri = u
                        /\ ScanRecordOf(s3[a][q], a) \in Range(results[a])

\* C8 (as claimed): when every range read of a group succeeded on the aligned
\* record bytes, the set of returned records is the set the full scan of the
\* archive returns, restricted to the group's requested target URIs.
C8_RangeEqualsFullScan ==
    \A a \in Archives :
        (Returned(a) /\ cfg.use_range_reads /\ opens[a] = 0) =>
            Range(results[a]) =
                {r \in Range(StreamAndExtract(a)) : r.URL \in RequestedUrls(a)}

\* C9 (as claimed): every record the extractor holds or returns, on either
\* path, has a head or a digest.
C9_HeadOrDigest ==
    \A a \in Archives :
        \A r \in Range(results[a]) \cup Range(sresults[a]) :
            r.Head # None \/ r.EntityDigest # None

\* C10: when the query result lacks a required column the run stops with the
\* validation error: no task is ever submitted or started and no batch is
\* written.
C10_MissingColumnStopsRun ==
    ~(Required \subseteq athena_df.columns) =>
        /\ pc \in {"start", "raised"}
        /\ futures = {}
        /\ \A a \in Archives : wpc[a] = "idle"
        /\ written = <<>> /\ aggregated = <<>>
\* The run has raised on a result with rows but without the offset column.
C10_Witness ==
    /\ pc = "raised"
    /\ "offset" \notin athena_df.columns
    /\ Len(athena_df.rows) > 0

\* C11: the total the run reports counts exactly the records of the batches
\* handed to the sink, at every moment, and at the end of the run it is the
\* number of records the archive tasks returned.
C11_CountIsWrittenIsProduced ==
    /\ total_extracted = Len(Flat(written))
    /\ pc = "done" => total_extracted = Produced
\* A finished run that handed two or more batches holding three or more records.
C11_Witness ==
    /\ pc = "done"
    /\ Len(written) >= 2
    /\ total_extracted >= 3

\* The distinct archive locations of the query result.
Locations == {athena_df.rows[i].wat_s3_url : i \in DOMAIN athena_df.rows}

\* C12: once the submit loop is over, the submitted tasks are exactly the
\* distinct archive locations of the query result, one task each, and at no
\* moment do more than max_workers tasks execute.
C12_OneTaskPerArchiveBoundedPool ==
    /\ pc \in {"collect", "done"} =>
          /\ futures = Locations
          /\ DOMAIN groups = Locations
          /\ \A a \in Archives : wpc[a] # "idle"
    /\ futures \subseteq Locations
    /\ \A a \in Archives : a \notin futures => wpc[a] = "idle"
    /\ Cardinality(Running) <= cfg.max_workers
\* The pool is full while a submitted task waits in the queue.
C12_Witness ==
    /\ Cardinality(Running) = cfg.max_workers
    /\ Queued # {}
    /\ Cardinality(Locations) >= 2

\* The list a task returns when every range read handed back the bytes of the
\* record at its offset and every piece parsed.
RangeResults(a) ==
    [i \in DOMAIN groups[a] |->
        RangeRecord(ParseWatRecordBytes(s3[a][groups[a][i].offset]), groups[a][i].url, a)]
\* The list the scan of the first p records of the stream returns.
ScanOfPrefix(a, p) ==
    ScanFrom(SubSeq(s3[a], 1, p), 1, <<>>, groups[a], urls_of_interest, a)
\* What a returned task must have returned, as a function of its entries, the
\* filter, the archive and the responses of the object store: no fallback,
\* failed open, stream cut before record pos, or complete scan.
Expected(a) ==
    IF opens[a] = 0 THEN RangeResults(a)
    ELSE IF handle[a] = "none" THEN <<>>
    ELSE IF a \in stream_failed THEN ScanOfPrefix(a, pos[a] - 1)
    ELSE StreamAndExtract(a)
\* The records of archive a in the flushed output, in flush order.
Contributed(a) == SelectSeq(Flat(written), LAMBDA r : r.WatFile = a)

\* C13: what a task returns is a function of its entries, the filter and the
\* responses of the object store, whatever the other tasks do meanwhile; and
\* whatever the completion order, a finished run holds exactly that list as
\* the archive's contribution.
C13_ResultIsFunctionOfInputs ==
    \A a \in Archives :
        /\ Returned(a) => results[a] = Expected(a)
        /\ (pc = "done" /\ Returned(a)) => Contributed(a) = Expected(a)
\* A finished run of two contributing archives where the later-submitted
\* archive completed first.
C13_Witness ==
    /\ pc = "done"
    /\ \E a, b \in Archives :
          /\ a < b
          /\ Returned(a) /\ results[a] # <<>>
          /\ Returned(b) /\ results[b] # <<>>
          /\ Flat(written)[1].WatFile = b

\* The fetched bytes decode to an envelope that is not an HTTP response.
NoRecordFetched(a) ==
    /\ wpc[a] = "range"
    /\ data[a].kind = "text"
    /\ data[a].rec.json_ok
    /\ data[a].rec.ctype # HTTP_RESPONSE
\* C14 (as claimed): when the fetched bytes decode to an envelope whose
\* content type is not the HTTP-response marker, the range loop appends
\* nothing, keeps its records, moves to the next entry and opens no scan.
C14_NoRecordContinues ==
    [][\A a \in Archives :
          (NoRecordFetched(a) /\ data'[a] = Unbound) =>
              /\ wpc'[a] \in {"range", "returned"}
              /\ results'[a] = results[a]
              /\ idx'[a] = idx[a] + 1]_vars

\* C15 (as claimed): within one archive group the offsets of the range GETs
\* never decrease.
C15_FetchOffsetsNonDecreasing ==
    \A a \in Archives :
        \A i, j \in DOMAIN fetched[a] : i < j => fetched[a][i] <= fetched[a][j]

Undecodable(rec) == rec.rec_type = "metadata" /\ ~rec.json_ok
\* The scan returned before the end of the stream without any failure.
ExitedEarly(a) ==
    /\ Returned(a) /\ handle[a] = "closed"
    /\ a \notin stream_failed
    /\ pos[a] < Len(s3[a])
\* The scan of a returned task was cut by nothing but, possibly, an
\* undecodable record: no early exit, and a logged failure only at such a record.
ScanNotCut(a) ==
    /\ Returned(a) /\ handle[a] = "closed"
    /\ ~ExitedEarly(a)
    /\ a \in stream_failed => Undecodable(s3[a][pos[a]])
\* C16 (as claimed): an undecodable metadata record is skipped: every valid
\* matching record after it in the stream is in the task's result.
C16_UndecodableIsSkipped ==
    \A a \in Archives :
        ScanNotCut(a) =>
            \A p, q \in DOMAIN s3[a] :
                (/\ p < q
                 /\ Undecodable(s3[a][p])
                 /\ ValidResponse(s3[a][q])
                 /\ ~ScanSkips(s3[a][q], urls_of_interest)) =>
                    ScanRecordOf(s3[a][q], a) \in Range(results[a])

\* The scan of the whole stream, without the early exit.
CompleteScan(a) ==
    ScanFrom(s3[a], 1, <<>>, [i \in 1..(Len(s3[a]) + 1) |-> groups[a][1]],
             urls_of_interest, a)
UrlsIn(seq) == {seq[i].URL : i \in DOMAIN seq}
\* C17 (as claimed): a scan that returns before the end of the stream had a
\* filter, had matched as many distinct target identifiers as were supplied
\* (counted as the filter's identifiers or as the group's entries, whichever
\* is fewer), and lost no requested identifier the complete scan returns.
C17_EarlyExitOnlyWhenAllMatched ==
    \A a \in Archives :
        ExitedEarly(a) =>
            /\ FilterTruthy(urls_of_interest)
            /\ \/ Cardinality(UrlsIn(results[a])) >= Cardinality(urls_of_interest.urls)
               \/ Cardinality(UrlsIn(results[a])) >= Len(groups[a])
            /\ (RequestedUrls(a) \cap UrlsIn(CompleteScan(a))) \subseteq UrlsIn(results[a])

\* C18: the buffer always holds fewer than chunk_size records, and every batch
\* the completion loop flushed held the whole buffer that had reached chunk_size.
C18_BufferBelowChunk ==
    /\ Len(aggregated) < cfg.chunk_size
    /\ \A i \in DOMAIN written :
          (i < Len(written) \/ pc = "collect") => Len(written[i].batch) >= cfg.chunk_size
\* The completion loop has just flushed a buffer that had passed chunk_size.
C18_Witness ==
    /\ pc = "collect"
    /\ aggregated = <<>>
    /\ written # <<>>
    /\ Len(written[Len(written)].batch) > cfg.chunk_size

\* The buffer and the flushed output together, in the order of arrival.
Taken == IF pc = "done" THEN Flat(written) ELSE Flat(written) \o aggregated
\* C19: in every interleaving the records of one archive lie in the output in
\* the order of the archive's own result list, they arrive there only once
\* the completion loop has handled the archive, and no step of a worker task
\* changes the buffer.
C19_ArchiveOrderKept ==
    /\ [](\A a \in Archives :
             SelectSeq(Taken, LAMBDA r : r.WatFile = a)
                 = IF a \in handled THEN TaskRows(a) ELSE <<>>)
    /\ [][wpc' # wpc => aggregated' = aggregated /\ written' = written]_vars
\* Two archives with two different records each, the later-submitted one
\* handled first.
C19_Witness ==
    \E a, b \in Archives :
        /\ a < b
        /\ handled = {a, b}
        /\ Len(results[a]) = 2 /\ results[a][1] # results[a][2]
        /\ Len(results[b]) = 2
        /\ Taken[1].WatFile = b

\* C20: a task that has returned or failed holds no open stream.
C20_NoOpenHandleAtExit ==
    \A a \in Archives : wpc[a] \in {"returned", "raised"} => handle[a] # "open"
\* One task returned after a failed read of its open stream, another after a
\* complete scan.
C20_Witness ==
    \E a, b \in Archives :
        /\ Returned(a) /\ a \in stream_failed /\ handle[a] = "closed"
        /\ Returned(b) /\ b \notin stream_failed /\ handle[b] = "closed"

\* C21: the range GETs of a task are those of the first entries of its group,
\* one GET per entry; the stream is opened at most once; and once the task has
\* turned to the full scan it issues no range GET any more.
C21_OneFetchPerEntryOneScan ==
    /\ [](\A a \in DOMAIN groups :
             /\ opens[a] <= 1
             /\ Len(fetched[a]) <= Len(groups[a])
             /\ \A i \in DOMAIN fetched[a] : fetched[a][i] = groups[a][i].offset)
    /\ [][\A a \in Archives :
             (opens[a] > 0 \/ wpc[a] \in {"open", "scan"}) =>
                 /\ fetched'[a] = fetched[a]
                 /\ opens'[a] <= 1]_vars
\* A task returned from the full scan it fell back to at an entry that was not
\* the last one of its group.
C21_Witness ==
    \E a \in DOMAIN groups :
        /\ Returned(a)
        /\ opens[a] = 1 /\ handle[a] = "closed"
        /\ Len(fetched[a]) >= 1
        /\ Len(fetched[a]) < Len(groups[a])

\* C22: every batch handed to the sink holds a record, and the running total
\* that names the destination grows from each flush to the next, so no two
\* batches of a run have the same destination.
C22_DestinationsIncrease ==
    /\ \A i \in DOMAIN written : Len(written[i].batch) >= 1
    /\ \A i, j \in DOMAIN written : i < j => written[i].dest < written[j].dest
    /\ \A i \in DOMAIN written : written[i].dest <= total_extracted
\* A finished run that wrote two batches of the same size.
C22_Witness ==
    /\ pc = "done"
    /\ Len(written) >= 2
    /\ Len(written[1].batch) = Len(written[2].batch)

\* Every submitted task has returned or failed and the loop has handled it.
AllHandled ==
    /\ handled = futures
    /\ \A a \in futures : wpc[a] \in {"returned", "raised"}
\* C23 (as claimed): once the query result has passed validation, the run
\* eventually ends with every task terminal and handled, the final flush done
\* and the accumulation buffer empty.
C23_EndsWithEmptyBuffer ==
    ColumnsOk(athena_df.columns) ~> (pc = "done" /\ AllHandled /\ aggregated = <<>>)
\* C23 (amended): once the query result has passed validation, the run
\* eventually ends with every task terminal and handled and every record of
\* the buffer written; after a final flush the buffer still is the last batch.
C23_EndsWithEverythingFlushed ==
    ColumnsOk(athena_df.columns) ~>
        (/\ pc = "done" /\ AllHandled
         /\ Len(Flat(written)) = Produced
         /\ (aggregated = <<>> \/ aggregated = written[Len(written)].batch))
\* A finished run with one failed and one returned task whose final flush
\* wrote the buffer.
C23_Witness ==
    /\ pc = "done" /\ AllHandled
    /\ \E a, b \in futures : wpc[a] = "raised" /\ wpc[b] = "returned"
    /\ aggregated # <<>>
====
